---- MODULE Spec2Model ----
(***************************************************************************)
(* Model of GraphAlgo (src/GraphAlgo.py): Dijkstra shortest_path, the      *)
(* double-BFS connected_component / connected_components, and the JSON     *)
(* load / save error handling, over the DiGraph adjacency store.           *)
(*                                                                         *)
(* DiGraph and NodeData live in DiGraph.py / components.py, which are not  *)
(* part of the source at hand; their operations (add_node, add_edge,       *)
(* all_out_edges_of_node, all_in_edges_of_node, get_all_v) are modelled    *)
(* from the specification text of the graph store.                         *)
(*                                                                         *)
(* Abstractions: edge weights are naturals (the code uses floats), node    *)
(* positions are left out (no modelled operation reads them), Python dict  *)
(* iteration order is taken as ascending key order (the modelled results   *)
(* that depend on it are lists, compared here through their elements).     *)
(***************************************************************************)
EXTENDS Integers, Sequences, FiniteSets, TLC

\* ---------------------------------------------------------------- bounds
NumNodes == 3
MaxW == 1
\* size of a graph under test: vertices plus edges plus total edge weight
MaxSize == 7
MaxFileNodes == 1
MaxFileEdges == 1

Nodes == 0..(NumNodes - 1)
Weights == 0..MaxW

\* math.inf: larger than every finite path weight of a bounded graph
Inf == 1000000

\* tag of a NodeData that no traversal has written yet
DefaultTag == 0

VARIABLES
    graph_v,          \* self.graph.graph_v: node id -> tag of that NodeData
    graph_edges_out,  \* self.graph.graph_edges_out, as <<src, dest>> -> weight
    ret,              \* outcome of the last GraphAlgo call
    pc,               \* position of the call in progress (stepwise traversals)
    call,             \* arguments of the call in progress
    heap_min,         \* shortest_path: the heapq list of <<tag, id>>
    prev_nodes,       \* shortest_path: predecessor dict
    queue,            \* bfs_in / bfs_out: the FIFO list
    visited,          \* bfs_in / bfs_out: the visited dict, as the set of True keys
    set_in            \* connected_component: result of bfs_in

gvars == <<graph_v, graph_edges_out>>
lvars == <<pc, call, heap_min, prev_nodes, queue, visited, set_in>>
vars == <<graph_v, graph_edges_out, ret, pc, call, heap_min, prev_nodes, queue, visited, set_in>>

\* ------------------------------------------------------- generic helpers
SetMin(S) == CHOOSE m \in S : \A x \in S : m <= x

\* the elements of a set of integers in ascending order
SortedSeq(S) ==
    [i \in 1..Cardinality(S) |-> CHOOSE x \in S : Cardinality({y \in S : y < x}) = i - 1]

\* F applied to the value of e (LET x == e IN F(x), with e evaluated once)
Bind(e, F(_)) == CHOOSE r \in {F(x) : x \in {e}} : TRUE

Reverse(s) == [i \in 1..Len(s) |-> s[Len(s) + 1 - i]]

SeqSet(s) == {s[i] : i \in 1..Len(s)}

RemoveAt(s, i) == [k \in 1..(Len(s) - 1) |-> IF k < i THEN s[k] ELSE s[k + 1]]

\* list.remove(x): drops the first occurrence
ListRemove(s, x) ==
    LET i == SetMin({k \in 1..Len(s) : s[k] = x}) IN RemoveAt(s, i)

\* ------------------------------------------------------------ the graph
get_all_v(gv) == gv

all_out_edges_of_node(ge, v) ==
    [n \in {m \in Nodes : <<v, m>> \in DOMAIN ge} |-> ge[<<v, n>>]]

all_in_edges_of_node(ge, v) ==
    [n \in {m \in Nodes : <<m, v>> \in DOMAIN ge} |-> ge[<<n, v>>]]

add_node(gv, node_id) ==
    IF node_id \in DOMAIN gv THEN gv
    ELSE [n \in DOMAIN gv \cup {node_id} |-> IF n = node_id THEN DefaultTag ELSE gv[n]]

add_edge(gv, ge, src, dest, w) ==
    IF src \notin DOMAIN gv \/ dest \notin DOMAIN gv \/ src = dest \/ w < 0 THEN ge
    ELSE [e \in DOMAIN ge \cup {<<src, dest>>} |-> IF e = <<src, dest>> THEN w ELSE ge[e]]

\* ---------------------------------------------------------- call outcomes
NoRet == [op |-> "none", id1 |-> -1, id2 |-> -1, stale |-> FALSE, kind |-> "none",
          dist |-> 0, path |-> <<>>, comps |-> <<>>, b |-> FALSE, exc |-> ""]

Raise(e) == [kind |-> "raise", dist |-> 0, path |-> <<>>, comps |-> <<>>, b |-> FALSE, exc |-> e]
RetNone == [kind |-> "None", dist |-> 0, path |-> <<>>, comps |-> <<>>, b |-> FALSE, exc |-> ""]
RetTuple(d, p) == [kind |-> "tuple", dist |-> d, path |-> p, comps |-> <<>>, b |-> FALSE, exc |-> ""]
RetList(l) == [kind |-> "list", dist |-> 0, path |-> l, comps |-> <<>>, b |-> FALSE, exc |-> ""]
RetLists(ls) == [kind |-> "lists", dist |-> 0, path |-> <<>>, comps |-> ls, b |-> FALSE, exc |-> ""]
RetBool(x) == [kind |-> "bool", dist |-> 0, path |-> <<>>, comps |-> <<>>, b |-> x, exc |-> ""]

NoCall == [op |-> "none", id1 |-> -1, id2 |-> -1, stale |-> FALSE]

\* the call, its outcome, and whether the tags it found had been written by an
\* earlier traversal (stale) rather than being those of fresh nodes
Outcome(op, a1, a2, stale, r) ==
    [op |-> op, id1 |-> a1, id2 |-> a2, stale |-> stale, kind |-> r.kind,
     dist |-> r.dist, path |-> r.path, comps |-> r.comps, b |-> r.b, exc |-> r.exc]

\* ------------------------------------------------------- shortest_path
\* variant: the tag of the popped vertex is left out of the sum
AltPath_noTag(tagv, w) == w

\* line 126: nodes[v].tag + weight, a float addition (inf + w = inf)
AltPath(tagv, w) == IF tagv = Inf THEN Inf ELSE tagv + w

\* variant: the loop of lines 116-117 is missing
InitTags_noReset(gv, id1) == [x \in DOMAIN gv |-> IF x = id1 THEN 0 ELSE gv[x]]

\* variant: line 118 is missing
InitTags_noSource(gv, id1) == [x \in DOMAIN gv |-> Inf]

\* lines 116-118: every tag to inf, the source's to 0
InitTags(gv, id1) == [x \in DOMAIN gv |-> IF x = id1 THEN 0 ELSE Inf]

\* tuple order of heapq entries <<tag, id>>
TupleLE(a, b) == a[1] < b[1] \/ (a[1] = b[1] /\ a[2] <= b[2])

\* index of the entry heappop returns
HeapMinIndex(heap) ==
    SetMin({i \in 1..Len(heap) : \A j \in 1..Len(heap) : TupleLE(heap[i], heap[j])})

\* the heap heappop leaves
HeapRest(heap) == RemoveAt(heap, HeapMinIndex(heap))

\* one iteration of the while loop of lines 121-130: pop v, relax every
\* out-edge of v. `visited` (line 113) is never appended to, so line 124 always
\* passes. The out-edges of v lead to distinct vertices other than v, so the
\* relaxations of one pass do not interact and are taken together; the pushes
\* are made in key order.
DijkstraStep(ge, st) ==
    Bind(st.heap[HeapMinIndex(st.heap)][2], LAMBDA v :
    Bind(all_out_edges_of_node(ge, v), LAMBDA out :
    Bind({}, LAMBDA visitedList :
    Bind({n \in DOMAIN out :
            /\ n \notin visitedList
            /\ st.tag[n] > AltPath(st.tag[v], out[n])}, LAMBDA better :
    Bind(SortedSeq(better), LAMBDA order :
        [tag |-> [n \in DOMAIN st.tag |->
                   IF n \in better THEN AltPath(st.tag[v], out[n]) ELSE st.tag[n]],
         prev |-> [n \in DOMAIN st.prev \cup better |->
                   IF n \in better THEN v ELSE st.prev[n]],
         heap |-> HeapRest(st.heap) \o
                  [k \in 1..Len(order) |->
                     <<AltPath(st.tag[v], out[order[k]]), order[k]>>]])))))

RECURSIVE DijkstraLoop(_, _)
DijkstraLoop(ge, st) ==
    IF Len(st.heap) > 0 THEN DijkstraLoop(ge, DijkstraStep(ge, st)) ELSE st

\* lines 131-138: walk prev_nodes back from id2 while the tag is positive
RECURSIVE Reconstruct(_, _, _, _)
Reconstruct(tag, prev, node_key, li) ==
    IF tag[node_key] > 0
    THEN IF node_key \in DOMAIN prev
         THEN Reconstruct(tag, prev, prev[node_key], Append(li, node_key))
         ELSE [kind |-> "raise", path |-> <<>>]
    ELSE [kind |-> "ok", path |-> Reverse(Append(li, node_key))]

\* lines 113-119
DijkstraStart(gv, id1) ==
    LET t == InitTags(gv, id1)
    IN [tag |-> t, prev |-> <<>>, heap |-> <<<<t[id1], id1>>>>]

\* lines 131-138 on the drained state
DijkstraFinish(st, id2) ==
    LET r == Reconstruct(st.tag, st.prev, id2, <<>>)
    IN IF r.kind = "raise" THEN Raise("KeyError") ELSE RetTuple(st.tag[id2], r.path)

\* variant: the tags are reset before the membership test of line 111
ShortestPath_resetFirst(gv, ge, id1, id2) ==
    LET nodes == get_all_v(gv)
    IN IF id1 \notin DOMAIN nodes \/ id2 \notin DOMAIN nodes
       THEN [graph_v |-> [x \in DOMAIN gv |-> Inf], r |-> RetNone]
       ELSE LET st == DijkstraLoop(ge, DijkstraStart(gv, id1))
            IN [graph_v |-> st.tag, r |-> DijkstraFinish(st, id2)]

\* lines 110-138, the whole call; yields the new graph_v (tags) and the outcome
ShortestPath(gv, ge, id1, id2) ==
    LET nodes == get_all_v(gv)
    IN IF id1 \notin DOMAIN nodes \/ id2 \notin DOMAIN nodes
       THEN [graph_v |-> gv, r |-> RetNone]
       ELSE LET st == DijkstraLoop(ge, DijkstraStart(gv, id1))
            IN [graph_v |-> st.tag, r |-> DijkstraFinish(st, id2)]

\* ------------------------------------------- bfs_out / bfs_in (176-218)
PyList(s) == [type |-> "list", items |-> s]

\* lines 177-182 / 199-204: all keys False, node_id True and enqueued
BfsStart(node_id) == [visited |-> {node_id}, queue |-> <<node_id>>]

\* variant: the head of the queue is read but not popped
BfsStep_noPop(nbrs, st) ==
    LET s == Head(st.queue)
        fresh == SortedSeq({i \in nbrs[s] : i \notin st.visited})
    IN [visited |-> st.visited \cup SeqSet(fresh), queue |-> st.queue \o fresh]

\* one iteration of the while loop: pop(0), mark and enqueue the unvisited
\* neighbours
BfsStep(nbrs, st) ==
    LET s == Head(st.queue)
        fresh == SortedSeq({i \in nbrs[s] : i \notin st.visited})
    IN [visited |-> st.visited \cup SeqSet(fresh), queue |-> Tail(st.queue) \o fresh]

RECURSIVE BfsLoop(_, _)
BfsLoop(nbrs, st) ==
    IF Len(st.queue) > 0 THEN BfsLoop(nbrs, BfsStep(nbrs, st)) ELSE st

\* lines 191-196 / 213-218: the True keys in dict order, node_id removed
BfsResult(st, node_id) == PyList(ListRemove(SortedSeq(st.visited), node_id))

OutNbrs(ge) == [s \in Nodes |-> DOMAIN all_out_edges_of_node(ge, s)]
InNbrs(ge) == [s \in Nodes |-> DOMAIN all_in_edges_of_node(ge, s)]

bfs_out(gv, ge, node_id) == BfsResult(BfsLoop(OutNbrs(ge), BfsStart(node_id)), node_id)

bfs_in(gv, ge, node_id) == BfsResult(BfsLoop(InNbrs(ge), BfsStart(node_id)), node_id)

\* Python's a & b: defined for two sets, TypeError for lists
BitAnd(a, b) ==
    IF a.type = "set" /\ b.type = "set"
    THEN RetList(SortedSeq(SeqSet(a.items) \cap SeqSet(b.items)))
    ELSE Raise("TypeError")

\* lines 153-155
connected_component(gv, ge, id1) ==
    LET in_ == bfs_in(gv, ge, id1)
        out_ == bfs_out(gv, ge, id1)
    IN BitAnd(in_, out_)

\* lines 166-173: keys[i..] still to visit
RECURSIVE ComponentsLoop(_, _, _, _, _, _)
ComponentsLoop(gv, ge, keys, i, visitedList, list_return) ==
    IF i > Len(keys) THEN RetLists(list_return)
    ELSE IF keys[i] \in SeqSet(visitedList)
         THEN ComponentsLoop(gv, ge, keys, i + 1, visitedList, list_return)
         ELSE LET SCC_set == connected_component(gv, ge, keys[i])
              IN IF SCC_set.kind = "raise" THEN SCC_set
                 ELSE ComponentsLoop(gv, ge, keys, i + 1, visitedList \o SCC_set.path,
                                     Append(list_return, SCC_set.path))

connected_components(gv, ge) ==
    ComponentsLoop(gv, ge, SortedSeq(DOMAIN get_all_v(gv)), 1, <<>>, <<>>)

\* --------------------------------------- load_from_json / save_to_json
SeqsUpTo(S, k) == UNION {[1..j -> S] : j \in 0..k}

NodeEntries ==
    {[has_id |-> TRUE, node_id |-> n] : n \in Nodes} \cup {[has_id |-> FALSE, node_id |-> -1]}

EdgeEntries ==
    {[complete |-> TRUE, src |-> e[1], dest |-> e[2], w |-> e[3]] : e \in Nodes \X Nodes \X Weights}
        \cup {[complete |-> FALSE, src |-> -1, dest |-> -1, w |-> 0]}

\* what load_from_json can meet: a file that cannot be opened, one that is
\* not JSON of the expected shape, or a document with or without its keys
LoadFiles ==
    {f \in [open : BOOLEAN, parse : BOOLEAN, has_nodes : BOOLEAN,
            nodes : SeqsUpTo(NodeEntries, MaxFileNodes), has_edges : BOOLEAN,
            edges : SeqsUpTo(EdgeEntries, MaxFileEdges)] :
        /\ (~f.has_nodes => f.nodes = <<>>)
        /\ (~f.has_edges => f.edges = <<>>)
        /\ (~f.parse => (~f.has_nodes /\ ~f.has_edges))
        /\ (~f.open => ~f.parse)}

\* lines 35-39; stops at the first entry without "node_id" (KeyError)
RECURSIVE LoadNodes(_, _, _)
LoadNodes(gv, nodes, i) ==
    IF i > Len(nodes) THEN [graph_v |-> gv, raised |-> FALSE]
    ELSE IF ~nodes[i].has_id THEN [graph_v |-> gv, raised |-> TRUE]
         ELSE LoadNodes(add_node(gv, nodes[i].node_id), nodes, i + 1)

\* lines 40-41; stops at the first entry lacking "src", "dest" or "w"
RECURSIVE LoadEdges(_, _, _, _)
LoadEdges(gv, ge, edges, i) ==
    IF i > Len(edges) THEN [graph_edges_out |-> ge, raised |-> FALSE]
    ELSE IF ~edges[i].complete THEN [graph_edges_out |-> ge, raised |-> TRUE]
         ELSE LoadEdges(gv, add_edge(gv, ge, edges[i].src, edges[i].dest, edges[i].w),
                        edges, i + 1)

\* the try block, lines 32-42
LoadTry(gv, ge, f) ==
    IF ~f.open \/ ~f.parse \/ ~f.has_nodes
    THEN [graph_v |-> gv, graph_edges_out |-> ge, raised |-> TRUE]
    ELSE LET n == LoadNodes(gv, f.nodes, 1)
         IN IF n.raised \/ ~f.has_edges
            THEN [graph_v |-> n.graph_v, graph_edges_out |-> ge, raised |-> TRUE]
            ELSE LET e == LoadEdges(n.graph_v, ge, f.edges, 1)
                 IN [graph_v |-> n.graph_v, graph_edges_out |-> e.graph_edges_out,
                     raised |-> e.raised]

\* lines 43-47: except returns False; finally closes `file`, a name that is
\* bound only once open() has succeeded
load_from_json(gv, ge, f) ==
    LET t == LoadTry(gv, ge, f)
        pending == RetBool(~t.raised)
    IN [graph_v |-> t.graph_v, graph_edges_out |-> t.graph_edges_out,
        r |-> IF f.open THEN pending ELSE Raise("UnboundLocalError")]

SaveFiles == [open : BOOLEAN, dump : BOOLEAN]

\* lines 56-80: open() stands outside the try
save_to_json(gv, ge, f) ==
    IF ~f.open THEN Raise("OSError")
    ELSE IF f.dump THEN RetBool(TRUE) ELSE RetBool(FALSE)

\* ------------------------------------------------------ initial graphs
Pairs(k) == {p \in (0..(k - 1)) \X (0..(k - 1)) : p[1] # p[2]}

\* total weight of an edge map
TotalWeight(ge) == Cardinality({x \in (DOMAIN ge) \X (1..MaxW) : ge[x[1]] >= x[2]})

\* graphs the store can hold: ids 0..k-1, no self-loops, weights >= 0
GraphsOf(k) ==
    UNION {{ge \in [E -> Weights] : k + Cardinality(E) + TotalWeight(ge) <= MaxSize} :
             E \in {F \in SUBSET Pairs(k) : k + Cardinality(F) <= MaxSize}}

Init ==
    /\ \E k \in 0..NumNodes :
          /\ graph_v = [n \in 0..(k - 1) |-> DefaultTag]
          /\ graph_edges_out \in GraphsOf(k)
    /\ ret = NoRet
    /\ pc = "idle"
    /\ call = NoCall
    /\ heap_min = <<>>
    /\ prev_nodes = <<>>
    /\ queue = <<>>
    /\ visited = {}
    /\ set_in = <<>>

Idle == pc = "idle" /\ ret = NoRet

FreshTags(gv) == [n \in DOMAIN gv |-> DefaultTag]

Stale == graph_v # FreshTags(graph_v)

\* the caller takes the outcome of the finished call
Return ==
    /\ pc = "idle"
    /\ ret # NoRet
    /\ ret' = NoRet
    /\ UNCHANGED <<gvars, lvars>>

CallShortestPath ==
    \E id1 \in Nodes, id2 \in Nodes :
        /\ Idle
        /\ LET res == ShortestPath(graph_v, graph_edges_out, id1, id2)
           IN /\ graph_v' = res.graph_v
              /\ ret' = Outcome("shortest_path", id1, id2, Stale, res.r)
        /\ UNCHANGED <<graph_edges_out, lvars>>

CallConnectedComponent ==
    \E id1 \in DOMAIN graph_v :
        /\ Idle
        /\ ret' = Outcome("connected_component", id1, -1, Stale,
                          connected_component(graph_v, graph_edges_out, id1))
        /\ UNCHANGED <<gvars, lvars>>

CallConnectedComponents ==
    /\ Idle
    /\ ret' = Outcome("connected_components", -1, -1, Stale,
                      connected_components(graph_v, graph_edges_out))
    /\ UNCHANGED <<gvars, lvars>>

CallLoad ==
    \E f \in LoadFiles :
        /\ Idle
        /\ LET res == load_from_json(graph_v, graph_edges_out, f)
           IN /\ graph_v' = res.graph_v
              /\ graph_edges_out' = res.graph_edges_out
              /\ ret' = Outcome("load_from_json", -1, -1, Stale, res.r)
        /\ UNCHANGED lvars

CallSave ==
    \E f \in SaveFiles :
        /\ Idle
        /\ ret' = Outcome("save_to_json", -1, -1, Stale,
                          save_to_json(graph_v, graph_edges_out, f))
        /\ UNCHANGED <<gvars, lvars>>

NextIO == CallLoad \/ CallSave \/ Return

IOSpec == Init /\ [][NextIO]_vars

\* ------------------------------------------ the traversals, loop by loop
\* lines 110-119
TStartShortestPath ==
    \E id1 \in Nodes, id2 \in Nodes :
        /\ Idle
        /\ IF id1 \notin DOMAIN get_all_v(graph_v) \/ id2 \notin DOMAIN get_all_v(graph_v)
           THEN /\ ret' = Outcome("shortest_path", id1, id2, Stale, RetNone)
                /\ UNCHANGED <<gvars, lvars>>
           ELSE LET st == DijkstraStart(graph_v, id1)
                IN /\ graph_v' = st.tag
                   /\ heap_min' = st.heap
                   /\ prev_nodes' = st.prev
                   /\ pc' = "dijkstra"
                   /\ call' = [op |-> "shortest_path", id1 |-> id1, id2 |-> id2,
                               stale |-> Stale]
                   /\ UNCHANGED <<graph_edges_out, ret, queue, visited, set_in>>

\* lines 121-130, one pass of the while loop
TDijkstraStep ==
    /\ pc = "dijkstra"
    /\ Len(heap_min) > 0
    /\ \E st \in {DijkstraStep(graph_edges_out,
                              [tag |-> graph_v, heap |-> heap_min, prev |-> prev_nodes])} :
          /\ graph_v' = st.tag
          /\ heap_min' = st.heap
          /\ prev_nodes' = st.prev
    /\ UNCHANGED <<graph_edges_out, ret, pc, call, queue, visited, set_in>>

\* lines 131-138, once the heap is empty
TDijkstraDone ==
    /\ pc = "dijkstra"
    /\ Len(heap_min) = 0
    /\ ret' = Outcome("shortest_path", call.id1, call.id2, call.stale,
                      DijkstraFinish([tag |-> graph_v, heap |-> heap_min,
                                      prev |-> prev_nodes], call.id2))
    /\ pc' = "idle"
    /\ call' = NoCall
    /\ prev_nodes' = <<>>
    /\ UNCHANGED <<gvars, heap_min, queue, visited, set_in>>

\* line 153: connected_component enters bfs_in
TStartComponent ==
    \E id1 \in DOMAIN graph_v :
        /\ Idle
        /\ pc' = "bfs_in"
        /\ call' = [op |-> "connected_component", id1 |-> id1, id2 |-> -1, stale |-> Stale]
        /\ queue' = BfsStart(id1).queue
        /\ visited' = BfsStart(id1).visited
        /\ UNCHANGED <<gvars, ret, heap_min, prev_nodes, set_in>>

\* lines 206-211, one pass of the while loop
TBfsInStep ==
    /\ pc = "bfs_in"
    /\ Len(queue) > 0
    /\ LET st == BfsStep(InNbrs(graph_edges_out), [visited |-> visited, queue |-> queue])
       IN queue' = st.queue /\ visited' = st.visited
    /\ UNCHANGED <<gvars, ret, pc, call, heap_min, prev_nodes, set_in>>

\* lines 213-218, then line 154 enters bfs_out
TBfsInDone ==
    /\ pc = "bfs_in"
    /\ Len(queue) = 0
    /\ set_in' = BfsResult([visited |-> visited, queue |-> queue], call.id1).items
    /\ pc' = "bfs_out"
    /\ queue' = BfsStart(call.id1).queue
    /\ visited' = BfsStart(call.id1).visited
    /\ UNCHANGED <<gvars, ret, call, heap_min, prev_nodes>>

\* lines 184-189, one pass of the while loop
TBfsOutStep ==
    /\ pc = "bfs_out"
    /\ Len(queue) > 0
    /\ LET st == BfsStep(OutNbrs(graph_edges_out), [visited |-> visited, queue |-> queue])
       IN queue' = st.queue /\ visited' = st.visited
    /\ UNCHANGED <<gvars, ret, pc, call, heap_min, prev_nodes, set_in>>

\* lines 191-196, then line 155
TBfsOutDone ==
    /\ pc = "bfs_out"
    /\ Len(queue) = 0
    /\ ret' = Outcome("connected_component", call.id1, -1, call.stale,
                      BitAnd(PyList(set_in),
                             BfsResult([visited |-> visited, queue |-> queue], call.id1)))
    /\ pc' = "idle"
    /\ call' = NoCall
    /\ visited' = {}
    /\ set_in' = <<>>
    /\ UNCHANGED <<gvars, heap_min, prev_nodes, queue>>

\* the call in progress moves on: execution is single-threaded and synchronous
TRun == TDijkstraStep \/ TDijkstraDone \/ TBfsInStep \/ TBfsInDone \/ TBfsOutStep \/ TBfsOutDone

NextT == TStartShortestPath \/ TStartComponent \/ TRun \/ Return

TermSpec == Init /\ [][NextT]_vars /\ WF_vars(TRun)

Next ==
    \/ CallShortestPath
    \/ CallConnectedComponent
    \/ CallConnectedComponents
    \/ Return

Spec == Init /\ [][Next]_vars

\* ------------------------------------------------ reference definitions
Present == DOMAIN graph_v
Edges == DOMAIN graph_edges_out

Last(p) == p[Len(p)]

\* walks out of s with at most k vertices, grown edge by edge
RECURSIVE WalksFrom(_, _)
WalksFrom(s, k) ==
    IF k <= 1 THEN {<<s>>}
    ELSE LET W == WalksFrom(s, k - 1)
         IN W \cup {Append(p, e[2]) : <<p, e>> \in {x \in W \X Edges : Last(x[1]) = x[2][1]}}

IsWalk(p) == \A i \in 1..(Len(p) - 1) : <<p[i], p[i + 1]>> \in Edges

RECURSIVE WalkWeight(_)
WalkWeight(p) ==
    IF Len(p) <= 1 THEN 0
    ELSE graph_edges_out[<<p[1], p[2]>>] + WalkWeight(Tail(p))

\* a walk that repeats a vertex is never lighter than the simple path inside
\* it, so walks of up to |V| + 1 vertices contain every minimum
WalksTo(s, t) == {p \in WalksFrom(s, Cardinality(Present) + 1) : Last(p) = t}

Reachable(s, t) == WalksTo(s, t) # {}

MinDist(s, t) == SetMin({WalkWeight(p) : p \in WalksTo(s, t)})

StrongComponent(v) == {u \in Present : Reachable(v, u) /\ Reachable(u, v)}

SPCalled == ret.op = "shortest_path"
SPPresent == SPCalled /\ ret.id1 \in Present /\ ret.id2 \in Present

\* ----------------------------------------------------------------- claims

\* C1: with present source and target and no directed path between them,
\* shortest_path returns (inf, []) and does not raise.
C1_UnreachableReturnsInfEmpty ==
    (SPPresent /\ ~Reachable(ret.id1, ret.id2))
        => (ret.kind = "tuple" /\ ret.dist = Inf /\ ret.path = <<>>)

\* C3: for a reachable target the returned distance is the minimum, over all
\* directed paths from source to target, of the sum of the edge weights.
C3_DistanceIsMinimal ==
    (SPPresent /\ Reachable(ret.id1, ret.id2))
        => (ret.kind = "tuple" /\ ret.dist = MinDist(ret.id1, ret.id2))

\* a two-hop route that beats the direct edge, found after the target was
\* first reached over the direct edge
C3_Witness ==
    /\ SPPresent /\ ret.kind = "tuple"
    /\ ret.id1 # ret.id2
    /\ <<ret.id1, ret.id2>> \in Edges
    /\ ret.dist < graph_edges_out[<<ret.id1, ret.id2>>]

\* C4: for a reachable target the returned path starts at source, ends at
\* target, follows existing edges, and its weight is the returned distance.
C4_PathIsValid ==
    (SPPresent /\ Reachable(ret.id1, ret.id2))
        => /\ ret.kind = "tuple"
           /\ Len(ret.path) >= 1
           /\ ret.path[1] = ret.id1
           /\ Last(ret.path) = ret.id2
           /\ IsWalk(ret.path)
           /\ WalkWeight(ret.path) = ret.dist

\* C6: shortest_path(v, v) on a present vertex returns exactly (0, [v]).
C6_SelfPath ==
    (SPPresent /\ ret.id1 = ret.id2)
        => (ret.kind = "tuple" /\ ret.dist = 0 /\ ret.path = <<ret.id1>>)

\* v lies on a zero-weight cycle
C6_Witness ==
    /\ SPPresent /\ ret.id1 = ret.id2 /\ ret.kind = "tuple"
    /\ \E n \in Present :
          /\ <<ret.id1, n>> \in Edges /\ graph_edges_out[<<ret.id1, n>>] = 0
          /\ <<n, ret.id1>> \in Edges /\ graph_edges_out[<<n, ret.id1>>] = 0

C9_TagsIrrelevant ==
    SPCalled =>
        \A d \in {DefaultTag, 1, Inf} :
            ret = Outcome("shortest_path", ret.id1, ret.id2, ret.stale,
                          ShortestPath([n \in Present |-> d], graph_edges_out,
                                       ret.id1, ret.id2).r)

\* the call found tags an earlier search had written, and relaxed an edge
C9_Witness ==
    /\ SPPresent /\ ret.stale /\ ret.kind = "tuple"
    /\ Len(ret.path) >= 2
    /\ graph_v[ret.id1] = 0

\* C5: connected_component(v) of a present v is the list of exactly the
\* vertices mutually reachable with v, v itself included.
C5_ComponentIsSCC ==
    (ret.op = "connected_component" /\ ret.id1 \in Present)
        => (ret.kind = "list" /\ SeqSet(ret.path) = StrongComponent(ret.id1))

\* C2: connected_components() returns a partition of the vertex set.
C2_ComponentsPartition ==
    ret.op = "connected_components"
        => /\ ret.kind = "lists"
           /\ UNION {SeqSet(ret.comps[i]) : i \in 1..Len(ret.comps)} = Present
           /\ \A v \in Present :
                 Cardinality({i \in 1..Len(ret.comps) : v \in SeqSet(ret.comps[i])}) = 1
           /\ \A i \in 1..Len(ret.comps) :
                 Cardinality(SeqSet(ret.comps[i])) = Len(ret.comps[i])

IOCalled == ret.op \in {"load_from_json", "save_to_json"}

\* C8: load_from_json and save_to_json always end by returning a boolean; no
\* exception reaches the caller, whatever fails.
C8_AlwaysBoolean == IOCalled => ret.kind = "bool"

\* C10: every traversal terminates: a call in progress returns, the heap of
\* shortest_path drained and the queues of bfs_in and bfs_out emptied; each
\* pass of the Dijkstra loop pushes exactly the vertices whose tag it has
\* strictly lowered, and a BFS queue never holds a vertex twice nor one that
\* is not marked visited.
C10_Terminates ==
    /\ (pc # "idle") ~> (pc = "idle" /\ ret # NoRet /\ Len(heap_min) = 0 /\ Len(queue) = 0)
    /\ [][(pc = "dijkstra" /\ pc' = "dijkstra") =>
            /\ \A n \in DOMAIN graph_v : graph_v'[n] <= graph_v[n]
            /\ Len(heap_min') =
                  Len(heap_min) - 1
                    + Cardinality({n \in DOMAIN graph_v : graph_v'[n] < graph_v[n]})]_vars
    /\ [](pc \in {"bfs_in", "bfs_out"} =>
            /\ Cardinality(SeqSet(queue)) = Len(queue)
            /\ SeqSet(queue) \subseteq visited)

\* a vertex sits in the heap twice: it was pushed again on a smaller tag
C10_Witness ==
    /\ pc = "dijkstra"
    /\ \E i, j \in 1..Len(heap_min) : i # j /\ heap_min[i][2] = heap_min[j][2]
====
